---- MODULE Spec2Model ----
(***************************************************************************)
(* Compound interest calculator: the projection engine                     *)
(* (calculateCompoundInterest) and the form that calls it (App).           *)
(*                                                                         *)
(* Numbers.  The engine's amounts are modelled as exact rationals.  A run  *)
(* has one growth factor 1 + monthlyRate = FactorNum / FactorDen, so every *)
(* amount of the run is an integer multiple of 1 / Scale with              *)
(* Scale = FactorDen ^ months; amounts are held as that integer.  years is *)
(* the rational yearsN / YearsDen.  compoundsPerYear is drawn from the     *)
(* multiples of 12, for which the exponent compoundsPerYear / 12 of        *)
(* Math.pow is a whole number and the monthly rate is rational.            *)
(***************************************************************************)
EXTENDS Integers, Sequences, FiniteSets, TLC

\* the engine: one run of calculateCompoundInterest
VARIABLES input, month, balance, totalContributions, yearlyRows, pc, returned

\* the form: App's state; submitted tells whether the latest event was a
\* submit, and call is the engine call that event made
VARIABLES formState, errors, result, language, submitted, call

engineVars == <<input, month, balance, totalContributions, yearlyRows, pc, returned>>

appVars == <<formState, errors, result, language, submitted, call>>

vars == <<engineVars, appVars>>

\* ---------------------------------------------------------------- bounds
MaxPrincipal == 2
MaxContribution == 2
MonthParts == 4
MaxHorizonMonths == 25
MaxAmount == 1073741824

\* years = yearsN / YearsDen: a month is divided into MonthParts parts
YearsDen == 12 * MonthParts

MaxYearsN == MaxHorizonMonths * MonthParts

Rates == {0, 600, 1200}
Compoundings == {12, 24}
Frequencies == {"monthly", "annual"}

\* ------------------------------------------------------------ arithmetic
Max(a, b) == IF a >= b THEN a ELSE b

RECURSIVE GCD(_, _)
GCD(a, b) == IF b = 0 THEN a ELSE GCD(b, a % b)

\* b ^ e, saturating at MaxAmount + 1
RECURSIVE Pow(_, _)
Pow(b, e) ==
  IF e = 0 THEN 1
  ELSE LET p == Pow(b, e - 1)
       IN IF p > MaxAmount \div b THEN MaxAmount + 1 ELSE p * b

\* Math.round(n / d) for n >= 0, d > 0: floor(n / d + 1/2)
Round(n, d) == (2 * n + d) \div (2 * d)

\* Math.ceil(n / d) for n >= 0, d > 0
Ceil(n, d) == (n + d - 1) \div d

\* ---------------------------------------------------------------- engine
\* variant: the horizon is rounded up to whole years
MonthsOfWholeYears(yearsN) == 12 * Ceil(yearsN, YearsDen)

\* variant: the horizon is rounded without the floor of one month
MonthsUnclamped(yearsN) == Round(yearsN * 12, YearsDen)

\* const months = Math.max(1, Math.round(years * 12))
Months(yearsN) == Max(1, Round(yearsN * 12, YearsDen))

\* 1 + annualRate / compoundsPerYear, with annualRate = annualRatePercent / 100,
\* as a fraction in lowest terms
BaseNum(i) ==
  LET n == 100 * i.compoundsPerYear + i.annualRatePercent
      d == 100 * i.compoundsPerYear
  IN n \div GCD(n, d)

BaseDen(i) ==
  LET n == 100 * i.compoundsPerYear + i.annualRatePercent
      d == 100 * i.compoundsPerYear
  IN d \div GCD(n, d)

\* 1 + monthlyRate = Math.pow(1 + annualRate / compoundsPerYear, compoundsPerYear / 12)
FactorNum(i) == Pow(BaseNum(i), i.compoundsPerYear \div 12)

FactorDen(i) == Pow(BaseDen(i), i.compoundsPerYear \div 12)

\* the unit of the run's amounts is 1 / Scale(i)
Scale(i) == Pow(FactorDen(i), Months(i.yearsN))

\* const isYearEnd = month % 12 === 0
IsYearEnd(m) == m % 12 = 0

\* variant: the annual contribution is paid in the first month of each year
ContributionAtYearStart(i, m) ==
  IF i.contributionFrequency = "monthly" THEN i.contributionAmount
  ELSE IF m % 12 = 1 THEN i.contributionAmount
  ELSE 0

\* contributionFrequency === "monthly" ? contributionAmount : isYearEnd ? contributionAmount : 0
ContributionThisMonth(i, m) ==
  IF i.contributionFrequency = "monthly" THEN i.contributionAmount
  ELSE IF IsYearEnd(m) THEN i.contributionAmount
  ELSE 0

\* variant: the deposit is made before the month's growth
DepositThenGrow(i, b, c) == ((b + c * Scale(i)) * FactorNum(i)) \div FactorDen(i)

\* balance * (1 + monthlyRate) + contributionThisMonth
Grow(i, b, c) == (b * FactorNum(i)) \div FactorDen(i) + c * Scale(i)

\* variant: a row is pushed at year ends only
EmitsRowAtYearEndOnly(m, months) == IsYearEnd(m)

\* if (isYearEnd || isFinalMonth)
EmitsRow(m, months) == IsYearEnd(m) \/ m = months

\* yearlyRows.push({...}): the row object, given its yearNumber, isPartial,
\* previousBalance and totalInterest
RowWith(i, m, b, tc, rows, yearNumber, isPartial, previousBalance, totalInterest) ==
  LET previousTotalContributions ==
        IF Len(rows) > 0 THEN rows[Len(rows)].totalContributions
        ELSE i.principal * Scale(i)
      yearlyContributions == tc - previousTotalContributions
  IN [yearNumber |-> yearNumber,
      isPartial |-> isPartial,
      endBalance |-> b,
      yearlyContributions |-> yearlyContributions,
      yearlyInterest |-> b - previousBalance - yearlyContributions,
      totalContributions |-> tc,
      totalInterest |-> totalInterest]

\* const previousBalance = previousRow ? previousRow.endBalance : principal
PreviousBalance(i, rows) ==
  IF Len(rows) > 0 THEN rows[Len(rows)].endBalance ELSE i.principal * Scale(i)

\* variant: totalInterest is taken against the deposits made before this month
NewRowInterestBeforeDeposit(i, m, b, tc, rows) ==
  RowWith(i, m, b, tc, rows, Ceil(m, 12), m % 12 # 0, PreviousBalance(i, rows),
          b - (tc - ContributionThisMonth(i, m) * Scale(i)))

\* variant: the row of the final month is the partial one
NewRowPartialWhenFinal(i, m, b, tc, rows) ==
  RowWith(i, m, b, tc, rows, Ceil(m, 12), m = Months(i.yearsN),
          PreviousBalance(i, rows), b - tc)

\* variant: yearNumber is rounded down
NewRowYearFloor(i, m, b, tc, rows) ==
  RowWith(i, m, b, tc, rows, m \div 12, m % 12 # 0, PreviousBalance(i, rows), b - tc)

\* variant: yearlyInterest is always taken against the principal
NewRowAgainstPrincipal(i, m, b, tc, rows) ==
  RowWith(i, m, b, tc, rows, Ceil(m, 12), m % 12 # 0, i.principal * Scale(i), b - tc)

\* variant: the row's totalContributions holds the year's contributions
NewRowYearlyAsTotal(i, m, b, tc, rows) ==
  LET row == RowWith(i, m, b, tc, rows, Ceil(m, 12), m % 12 # 0,
                     PreviousBalance(i, rows), b - tc)
  IN [row EXCEPT !.totalContributions = row.yearlyContributions]

\* the row pushed at the end of month m
NewRow(i, m, b, tc, rows) ==
  RowWith(i, m, b, tc, rows, Ceil(m, 12), m % 12 # 0, PreviousBalance(i, rows), b - tc)

\* the object returned after the loop
Result(b, tc, rows) ==
  [finalAmount |-> b,
   totalContributions |-> tc,
   totalInterest |-> b - tc,
   yearlyRows |-> rows]

NoResult == [finalAmount |-> -1, totalContributions |-> -1,
             totalInterest |-> 0, yearlyRows |-> <<>>]

\* every amount of the run, and every product formed on the way, is below
\* MaxAmount
Representable(i) ==
  LET fn == FactorNum(i)
      fd == FactorDen(i)
      m == Months(i.yearsN)
      top == Pow(fn, m + 1)
      weight == IF fn = fd THEN i.principal + i.contributionAmount * m
                ELSE i.principal + i.contributionAmount * fd
  IN /\ fn <= MaxAmount
     /\ top <= MaxAmount
     /\ weight = 0 \/ top <= MaxAmount \div weight

Inputs ==
  {i \in [principal : 0..MaxPrincipal,
          annualRatePercent : Rates,
          yearsN : 1..MaxYearsN,
          compoundsPerYear : Compoundings,
          contributionAmount : 0..MaxContribution,
          contributionFrequency : Frequencies] : Representable(i)}

\* ------------------------------------------------------------------ form
\* Texts are sequences of one-character strings.
Digit == ("0" :> 0) @@ ("1" :> 1) @@ ("2" :> 2) @@ ("3" :> 3) @@ ("4" :> 4) @@
         ("5" :> 5) @@ ("6" :> 6) @@ ("7" :> 7) @@ ("8" :> 8) @@ ("9" :> 9)

Whitespace == {" "}

InfinityWord == <<"I", "n", "f", "i", "n", "i", "t", "y">>

\* String.prototype.trim
RECURSIVE TrimStart(_)
TrimStart(s) ==
  IF s # <<>> /\ Head(s) \in Whitespace THEN TrimStart(Tail(s)) ELSE s

RECURSIVE TrimEnd(_)
TrimEnd(s) ==
  IF s # <<>> /\ s[Len(s)] \in Whitespace THEN TrimEnd(SubSeq(s, 1, Len(s) - 1)) ELSE s

Trim(s) == TrimEnd(TrimStart(s))

\* s.replace(/c/g, ""), for every character c of the set cs
RECURSIVE Remove(_, _)
Remove(s, cs) ==
  IF s = <<>> THEN <<>>
  ELSE IF Head(s) \in cs THEN Remove(Tail(s), cs)
  ELSE <<Head(s)>> \o Remove(Tail(s), cs)

\* s.replace(/,/g, ".")
CommasToDots(s) == [k \in 1..Len(s) |-> IF s[k] = "," THEN "." ELSE s[k]]

\* numbers: a finite value num / den, or NaN, or +-Infinity (num = +-1)
Finite(n, d) == [kind |-> "finite", num |-> n, den |-> d]

NaN == [kind |-> "NaN", num |-> 0, den |-> 1]

Infinite(sign) == [kind |-> "Infinity", num |-> sign, den |-> 1]

Null == [kind |-> "null", num |-> 0, den |-> 1]

Zero == Finite(0, 1)

\* x < 0 and x <= 0 as JavaScript compares numbers (false for NaN)
IsNegative(x) == x.kind \in {"finite", "Infinity"} /\ x.num < 0

NotPositive(x) == (x.kind = "finite" /\ x.num <= 0) \/ (x.kind = "Infinity" /\ x.num < 0)

\* Number.isFinite
IsFinite(x) == x.kind = "finite"

RECURSIVE DigitsValue(_)
DigitsValue(s) ==
  IF s = <<>> THEN 0 ELSE 10 * DigitsValue(SubSeq(s, 1, Len(s) - 1)) + Digit[s[Len(s)]]

RECURSIVE TenTo(_)
TenTo(e) == IF e = 0 THEN 1 ELSE 10 * TenTo(e - 1)

\* Number(text) for texts over digits, ".", ",", "+", "-", blanks and the
\* letters of "Infinity": an optional sign, then Infinity or decimal digits
\* with at most one point and at least one digit; anything else is NaN
Number(text) ==
  LET t == Trim(text)
      signed == t # <<>> /\ Head(t) \in {"+", "-"}
      sign == IF signed /\ Head(t) = "-" THEN -1 ELSE 1
      body == IF signed THEN Tail(t) ELSE t
      points == {k \in 1..Len(body) : body[k] = "."}
      digits == Remove(body, {"."})
      decimal == /\ \A k \in 1..Len(body) : body[k] \in DOMAIN Digit \cup {"."}
                 /\ Cardinality(points) <= 1
                 /\ digits # <<>>
      fraction == IF points = {} THEN 0 ELSE Len(body) - (CHOOSE k \in points : TRUE)
  IN IF t = <<>> THEN Zero
     ELSE IF body = InfinityWord THEN Infinite(sign)
     ELSE IF decimal THEN Finite(sign * DigitsValue(digits), TenTo(fraction))
     ELSE NaN

\* the text parseNumber hands to Number
Normalized(value, lang) ==
  IF lang = "cs" THEN CommasToDots(Remove(Remove(Trim(value), Whitespace), {"."}))
  ELSE Remove(Trim(value), {","})

\* variant: an empty value is parsed like Number(""), as 0
ParseNumberEmptyAsZero(value, lang) ==
  IF ~IsFinite(Number(Normalized(value, lang))) THEN Null
  ELSE Number(Normalized(value, lang))

\* variant: a value that is not finite is returned as it is
ParseNumberUnchecked(value, lang) ==
  IF Normalized(value, lang) = <<>> THEN Null ELSE Number(Normalized(value, lang))

\* parseNumber: null for an empty or non-finite value
parseNumber(value, lang) ==
  LET normalized == Normalized(value, lang)
      parsed == Number(normalized)
  IN IF normalized = <<>> THEN Null
     ELSE IF ~IsFinite(parsed) THEN Null
     ELSE parsed

TextFields == {"principal", "annualRatePercent", "years", "contributionAmount"}

Fields == TextFields \cup {"compoundsPerYear", "contributionFrequency"}

defaultState ==
  [principal |-> <<"0">>,
   annualRatePercent |-> <<"6">>,
   years |-> <<"1", "0">>,
   compoundsPerYear |-> <<"1", "2">>,
   contributionAmount |-> <<"2", "0", "0">>,
   contributionFrequency |-> "monthly"]

\* the values of compoundOptions
compoundOptions == {<<"1">>, <<"4">>, <<"1", "2">>, <<"3", "6", "5">>}

Languages == {"en", "cs"}

\* what a user types into a text field
Texts ==
  {<<" ">>,
   <<"0">>,
   <<"-", "1", ",", "5">>,
   <<"1", " ", "0">>,
   InfinityWord}

\* the values the control of a field can hand to updateField
FieldValues(field) ==
  IF field \in TextFields THEN Texts
  ELSE IF field = "compoundsPerYear" THEN compoundOptions
  ELSE Frequencies

\* the key of the message t.<key> set for a field
ErrorKey ==
  [principal |-> "principalError",
   annualRatePercent |-> "annualRateError",
   years |-> "yearsError",
   compoundsPerYear |-> "compoundingError",
   contributionAmount |-> "contributionError"]

\* x ?? 0
OrZero(x) == IF x = Null THEN Zero ELSE x

validate(fs, lang) ==
  LET principal == IF Trim(fs.principal) = <<>> THEN Zero
                   ELSE parseNumber(fs.principal, lang)
      annualRatePercent == parseNumber(fs.annualRatePercent, lang)
      years == parseNumber(fs.years, lang)
      compoundsPerYear == parseNumber(fs.compoundsPerYear, lang)
      contributionAmount == IF Trim(fs.contributionAmount) = <<>> THEN Zero
                            ELSE parseNumber(fs.contributionAmount, lang)
      failed ==
        {f \in DOMAIN ErrorKey :
           \/ f = "principal" /\ Trim(fs.principal) # <<>>
                /\ (principal = Null \/ IsNegative(principal))
           \/ f = "annualRatePercent"
                /\ (annualRatePercent = Null \/ IsNegative(annualRatePercent))
           \/ f = "years" /\ (years = Null \/ NotPositive(years))
           \/ f = "compoundsPerYear"
                /\ (compoundsPerYear = Null \/ NotPositive(compoundsPerYear))
           \/ f = "contributionAmount" /\ Trim(fs.contributionAmount) # <<>>
                /\ (contributionAmount = Null \/ IsNegative(contributionAmount))}
  IN [parsed |-> [principal |-> OrZero(principal),
                  annualRatePercent |-> OrZero(annualRatePercent),
                  years |-> OrZero(years),
                  compoundsPerYear |-> OrZero(compoundsPerYear),
                  contributionAmount |-> OrZero(contributionAmount)],
      errors |-> [f \in failed |-> ErrorKey[f]]]

\* the argument of calculateCompoundInterest in handleCalculate
CallArguments(parsed, fs) ==
  [principal |-> parsed.principal,
   annualRatePercent |-> parsed.annualRatePercent,
   years |-> parsed.years,
   compoundsPerYear |-> parsed.compoundsPerYear,
   contributionAmount |-> parsed.contributionAmount,
   contributionFrequency |-> fs.contributionFrequency]

NoCall == [principal |-> Null, annualRatePercent |-> Null, years |-> Null,
           compoundsPerYear |-> Null, contributionAmount |-> Null,
           contributionFrequency |-> "none"]

NoErrors == [f \in {} |-> "none"]

\* result is null or a CalculationResult; the App only tests it for null and
\* renders it, so one value stands for every CalculationResult
NoCalculation == "null"

Calculation == "CalculationResult"

\* the form as first rendered
AppMounted ==
  /\ formState = defaultState
  /\ errors = NoErrors
  /\ result = NoCalculation
  /\ language = "en"
  /\ submitted = FALSE
  /\ call = NoCall

\* the engine variables while only the form is observed
EngineIdle ==
  /\ input = [principal |-> 0, annualRatePercent |-> 0, yearsN |-> YearsDen,
              compoundsPerYear |-> 12, contributionAmount |-> 0,
              contributionFrequency |-> "monthly"]
  /\ month = 1
  /\ balance = 0
  /\ totalContributions = 0
  /\ yearlyRows = <<>>
  /\ pc = "idle"
  /\ returned = NoResult

\* updateField(field, value), from the onChange of a field's control
UpdateField(field, value) ==
  /\ formState' = [formState EXCEPT ![field] = value]
  /\ submitted' = FALSE
  /\ call' = NoCall
  /\ UNCHANGED <<errors, result, language, engineVars>>

\* setLanguage, from the language select or the effect that reads the
\* browser's locale
SetLanguage(lang) ==
  /\ language' = lang
  /\ submitted' = FALSE
  /\ call' = NoCall
  /\ UNCHANGED <<formState, errors, result, engineVars>>

\* variant: a submit with errors leaves the stored result alone
HandleCalculateKeepsResult ==
  LET v == validate(formState, language)
  IN /\ errors' = v.errors
     /\ submitted' = TRUE
     /\ IF DOMAIN v.errors # {}
        THEN /\ result' = result
             /\ call' = NoCall
        ELSE /\ call' = CallArguments(v.parsed, formState)
             /\ result' = Calculation
     /\ UNCHANGED <<formState, language, engineVars>>

\* handleCalculate, from the form's onSubmit
HandleCalculate ==
  LET v == validate(formState, language)
  IN /\ errors' = v.errors
     /\ submitted' = TRUE
     /\ IF DOMAIN v.errors # {}
        THEN /\ result' = NoCalculation
             /\ call' = NoCall
        ELSE /\ call' = CallArguments(v.parsed, formState)
             /\ result' = Calculation
     /\ UNCHANGED <<formState, language, engineVars>>

AppInit == AppMounted /\ EngineIdle

AppNext ==
  \/ \E field \in Fields : \E value \in FieldValues(field) : UpdateField(field, value)
  \/ \E lang \in Languages : SetLanguage(lang)
  \/ HandleCalculate

AppSpec == AppInit /\ [][AppNext]_vars

Init ==
  /\ AppMounted
  /\ input \in Inputs
  /\ month = 1
  /\ balance = input.principal * Scale(input)
  /\ totalContributions = input.principal * Scale(input)
  /\ yearlyRows = <<>>
  /\ pc = "loop"
  /\ returned = NoResult

\* one iteration of for (let month = 1; month <= months; month += 1)
Iterate ==
  /\ pc = "loop"
  /\ month <= Months(input.yearsN)
  /\ LET c == ContributionThisMonth(input, month)
         b == Grow(input, balance, c)
         tc == totalContributions + c * Scale(input)
     IN /\ balance' = b
        /\ totalContributions' = tc
        /\ yearlyRows' =
             IF EmitsRow(month, Months(input.yearsN))
             THEN Append(yearlyRows, NewRow(input, month, b, tc, yearlyRows))
             ELSE yearlyRows
  /\ month' = month + 1
  /\ UNCHANGED <<input, pc, returned, appVars>>

\* loop exit and return
Return ==
  /\ pc = "loop"
  /\ month > Months(input.yearsN)
  /\ returned' = Result(balance, totalContributions, yearlyRows)
  /\ pc' = "done"
  /\ UNCHANGED <<input, month, balance, totalContributions, yearlyRows, appVars>>

Next == Iterate \/ Return

Spec == Init /\ [][Next]_vars

\* ------------------------------------------------- engine, floating point
\* The same run with the rounding of JavaScript numbers: a number is
\* m * 2^e with |m| < 2^Precision (JavaScript has 53 bits; the exponent range
\* is not bounded here), and every operation rounds its exact result to the
\* nearest such number, ties to even.  The loop count is Months, as above.
Precision == 5

FloatRates == {0, 6, 100, 200}

RECURSIVE BitLength(_)
BitLength(n) == IF n = 0 THEN 0 ELSE 1 + BitLength(n \div 2)

RECURSIVE TwoTo(_)
TwoTo(k) == IF k = 0 THEN 1 ELSE 2 * TwoTo(k - 1)

\* m * 2^e with m odd (or 0 * 2^0), for m >= 0
RECURSIVE Normal(_, _)
Normal(m, e) ==
  IF m = 0 THEN [m |-> 0, e |-> 0]
  ELSE IF m % 2 = 0 THEN Normal(m \div 2, e + 1)
  ELSE [m |-> m, e |-> e]

\* the number nearest to M * 2^E, M >= 0, ties to even
RoundNearestEven(M, E) ==
  LET k == BitLength(M) - Precision
  IN IF k <= 0 THEN Normal(M, E)
     ELSE LET q == M \div TwoTo(k)
              r == M % TwoTo(k)
              half == TwoTo(k - 1)
              up == r > half \/ (r = half /\ q % 2 = 1)
          IN Normal(IF up THEN q + 1 ELSE q, E + k)

Fl(M, E) ==
  IF M < 0
  THEN LET r == RoundNearestEven(-M, E) IN [m |-> -r.m, e |-> r.e]
  ELSE RoundNearestEven(M, E)

\* the mantissa of x at exponent e <= x.e
Mantissa(x, e) == x.m * TwoTo(x.e - e)

LowExponent(x, y) == IF x.e <= y.e THEN x.e ELSE y.e

FromInt(n) == Fl(n, 0)

One == FromInt(1)

FAdd(x, y) ==
  LET e == LowExponent(x, y) IN Fl(Mantissa(x, e) + Mantissa(y, e), e)

FSub(x, y) ==
  LET e == LowExponent(x, y) IN Fl(Mantissa(x, e) - Mantissa(y, e), e)

FMul(x, y) == Fl(x.m * y.m, x.e + y.e)

\* x / y for x >= 0, y > 0: the quotient to Precision + 3 bits or more, with
\* a last bit that tells whether a remainder was left
FDiv(x, y) ==
  LET s == Precision + 2 + BitLength(y.m)
      n == x.m * TwoTo(s)
      sticky == IF n % y.m # 0 THEN 1 ELSE 0
  IN Fl(2 * (n \div y.m) + sticky, x.e - y.e - s - 1)

\* x < y
FLess(x, y) ==
  LET e == LowExponent(x, y) IN Mantissa(x, e) < Mantissa(y, e)

\* Math.pow(x, y) for the exponents 1 and 2
FloatPow(x, y) == IF y = One THEN x ELSE FMul(x, x)

\* const annualRate = annualRatePercent / 100
FloatAnnualRate(i) == FDiv(FromInt(i.annualRatePercent), FromInt(100))

\* Math.pow(1 + annualRate / compoundsPerYear, compoundsPerYear / 12)
FloatGrowth(i) ==
  FloatPow(FAdd(One, FDiv(FloatAnnualRate(i), FromInt(i.compoundsPerYear))),
           FDiv(FromInt(i.compoundsPerYear), FromInt(12)))

\* variant: the operands of the subtraction are swapped
FloatMonthlyRateSwapped(i) == FSub(One, FloatGrowth(i))

\* const monthlyRate = Math.pow(...) - 1
FloatMonthlyRate(i) == FSub(FloatGrowth(i), One)

\* balance * (1 + monthlyRate) + contributionThisMonth
FloatGrow(i, b, c) == FAdd(FMul(b, FAdd(One, FloatMonthlyRate(i))), c)

\* the row pushed at the end of month m
FloatNewRow(i, m, b, tc, rows) ==
  LET previousBalance ==
        IF Len(rows) > 0 THEN rows[Len(rows)].endBalance ELSE FromInt(i.principal)
      previousTotalContributions ==
        IF Len(rows) > 0 THEN rows[Len(rows)].totalContributions
        ELSE FromInt(i.principal)
      yearlyContributions == FSub(tc, previousTotalContributions)
  IN [yearNumber |-> Ceil(m, 12),
      isPartial |-> m % 12 # 0,
      endBalance |-> b,
      yearlyContributions |-> yearlyContributions,
      yearlyInterest |-> FSub(FSub(b, previousBalance), yearlyContributions),
      totalContributions |-> tc,
      totalInterest |-> FSub(b, tc)]

FloatResult(b, tc, rows) ==
  [finalAmount |-> b,
   totalContributions |-> tc,
   totalInterest |-> FSub(b, tc),
   yearlyRows |-> rows]

FloatInputs ==
  [principal : 0..MaxPrincipal,
   annualRatePercent : FloatRates,
   yearsN : 1..MaxYearsN,
   compoundsPerYear : Compoundings,
   contributionAmount : 0..MaxContribution,
   contributionFrequency : Frequencies]

FloatInit ==
  /\ AppMounted
  /\ input \in FloatInputs
  /\ month = 1
  /\ balance = FromInt(input.principal)
  /\ totalContributions = FromInt(input.principal)
  /\ yearlyRows = <<>>
  /\ pc = "loop"
  /\ returned = NoResult

\* one iteration of the loop
FloatIterate ==
  /\ pc = "loop"
  /\ month <= Months(input.yearsN)
  /\ LET c == FromInt(ContributionThisMonth(input, month))
         b == FloatGrow(input, balance, c)
         tc == FAdd(totalContributions, c)
     IN /\ balance' = b
        /\ totalContributions' = tc
        /\ yearlyRows' =
             IF EmitsRow(month, Months(input.yearsN))
             THEN Append(yearlyRows, FloatNewRow(input, month, b, tc, yearlyRows))
             ELSE yearlyRows
  /\ month' = month + 1
  /\ UNCHANGED <<input, pc, returned, appVars>>

\* loop exit and return
FloatReturn ==
  /\ pc = "loop"
  /\ month > Months(input.yearsN)
  /\ returned' = FloatResult(balance, totalContributions, yearlyRows)
  /\ pc' = "done"
  /\ UNCHANGED <<input, month, balance, totalContributions, yearlyRows, appVars>>

FloatNext == FloatIterate \/ FloatReturn

FloatSpec == FloatInit /\ [][FloatNext]_vars

\* ---------------------------------------------------------------- claims
months == Months(input.yearsN)

scale == Scale(input)

Done == pc = "done"

LastRow == returned.yearlyRows[Len(returned.yearlyRows)]

RECURSIVE SumOver(_, _, _)
SumOver(f(_), lo, hi) == IF lo > hi THEN 0 ELSE f(hi) + SumOver(f, lo, hi - 1)

\* C1: every yearly row has totalInterest = endBalance - totalContributions,
\* and the returned result has totalInterest = finalAmount - totalContributions.
C1_InterestIsBalanceLessContributions ==
  /\ \A k \in 1..Len(yearlyRows) :
        yearlyRows[k].totalInterest =
          yearlyRows[k].endBalance - yearlyRows[k].totalContributions
  /\ Done => /\ returned.totalInterest =
                  returned.finalAmount - returned.totalContributions
              /\ \A k \in 1..Len(returned.yearlyRows) :
                    returned.yearlyRows[k].totalInterest =
                      returned.yearlyRows[k].endBalance
                        - returned.yearlyRows[k].totalContributions

C1_Witness ==
  /\ Done
  /\ Len(returned.yearlyRows) >= 2
  /\ returned.totalInterest > 0
  /\ returned.totalContributions > input.principal * scale

\* C2 as stated: the number of rows is ceil(years), and the last row is
\* partial exactly when years * 12 is not a multiple of 12.
C2_RowsAreCeilYears ==
  Done => /\ Len(returned.yearlyRows) = Ceil(input.yearsN, YearsDen)
          /\ LastRow.isPartial = (input.yearsN % YearsDen # 0)

\* C2 amended: the number of rows is ceil(months / 12) with
\* months = max(1, round(years * 12)) and the last row is partial exactly when
\* months is not a multiple of 12; when years * 12 is a whole number this is
\* ceil(years) rows, the last one partial exactly when years is not whole.
C2_RowsAreCeilMonths ==
  Done => /\ Len(returned.yearlyRows) = Ceil(months, 12)
          /\ LastRow.isPartial = (months % 12 # 0)
          /\ (input.yearsN * 12) % YearsDen = 0 =>
                /\ Len(returned.yearlyRows) = Ceil(input.yearsN, YearsDen)
                /\ LastRow.isPartial = (input.yearsN % YearsDen # 0)

C2_WitnessRoundedDown ==
  /\ Done
  /\ (input.yearsN * 12) % YearsDen # 0
  /\ Len(returned.yearlyRows) = 1
  /\ Ceil(input.yearsN, YearsDen) = 2
  /\ ~LastRow.isPartial

C2_WitnessWholeMonths ==
  /\ Done
  /\ (input.yearsN * 12) % YearsDen = 0
  /\ Len(returned.yearlyRows) = 2
  /\ LastRow.isPartial

\* month k of the run receives a contribution
Receives(k) == input.contributionFrequency = "monthly" \/ k % 12 = 0

\* the balance after j months in closed form, in units of 1 / scale:
\* principal * (1 + monthlyRate)^j plus, for each month k <= j that received a
\* contribution, contributionAmount * (1 + monthlyRate)^(j - k)
ClosedForm(j) ==
  LET fn == FactorNum(input)
      fd == FactorDen(input)
      term(k) == IF Receives(k)
                 THEN input.contributionAmount * Pow(fn, j - k) * Pow(fd, months - j + k)
                 ELSE 0
  IN input.principal * Pow(fn, j) * Pow(fd, months - j) + SumOver(term, 1, j)

\* C3: growth is applied before the deposit in every month, so after each
\* month, and in the returned finalAmount, the balance is the closed form in
\* which the contribution of month k has grown for months - k months.
C3_GrowthThenDeposit ==
  /\ balance = ClosedForm(month - 1)
  /\ Done => returned.finalAmount = ClosedForm(months)

C3_Witness ==
  /\ Done
  /\ input.contributionAmount > 0
  /\ FactorNum(input) > FactorDen(input)
  /\ FactorDen(input) > 1
  /\ months > 12

\* C4: monthly contributions are added in every simulated month and annual
\* ones only in months with month % 12 = 0, so totalContributions is
\* principal + contributionAmount * months (monthly) or
\* principal + contributionAmount * floor(months / 12) (annual).
C4_ContributionTotals ==
  LET paid(j) == IF input.contributionFrequency = "monthly" THEN j ELSE j \div 12
  IN /\ totalContributions =
          (input.principal + input.contributionAmount * paid(month - 1)) * scale
     /\ Done => returned.totalContributions =
                   (input.principal + input.contributionAmount * paid(months)) * scale

C4_Witness ==
  /\ Done
  /\ input.contributionFrequency = "annual"
  /\ input.contributionAmount > 0
  /\ months > 12
  /\ months % 12 # 0

\* C5: yearlyRows is non-empty and its last row carries the result's
\* finalAmount, totalContributions and totalInterest.
C5_LastRowIsResult ==
  Done => /\ Len(returned.yearlyRows) > 0
          /\ LastRow.endBalance = returned.finalAmount
          /\ LastRow.totalContributions = returned.totalContributions
          /\ LastRow.totalInterest = returned.totalInterest

C5_Witness ==
  /\ Done
  /\ months % 12 # 0
  /\ Len(returned.yearlyRows) >= 2
  /\ returned.totalInterest > 0

\* C7: isPartial is false on every row but possibly the last, and the last
\* row is partial exactly when months is not a multiple of 12.
C7_OnlyLastRowPartial ==
  /\ \A k \in 1..Len(yearlyRows) :
        yearlyRows[k].isPartial => (k = Len(yearlyRows) /\ month > months)
  /\ Done => /\ \A k \in 1..(Len(returned.yearlyRows) - 1) :
                    ~returned.yearlyRows[k].isPartial
              /\ LastRow.isPartial = (months % 12 # 0)

C7_Witness ==
  /\ Done
  /\ Len(returned.yearlyRows) = 3
  /\ LastRow.isPartial

C7_WitnessWholeYears ==
  /\ Done
  /\ Len(returned.yearlyRows) = 2
  /\ ~LastRow.isPartial

\* C8: the i-th row has yearNumber i; there is one row per completed
\* 12-month year and one more exactly when the horizon ends mid-year, so the
\* row count is ceil(months / 12).
C8_RowsNumberedInOrder ==
  /\ \A k \in 1..Len(yearlyRows) : yearlyRows[k].yearNumber = k
  /\ month <= months => Len(yearlyRows) = (month - 1) \div 12
  /\ Done => /\ Len(returned.yearlyRows) =
                  months \div 12 + (IF months % 12 # 0 THEN 1 ELSE 0)
              /\ Len(returned.yearlyRows) = Ceil(months, 12)
              /\ \A k \in 1..Len(returned.yearlyRows) :
                    returned.yearlyRows[k].yearNumber = k

C8_Witness ==
  /\ Done
  /\ Len(returned.yearlyRows) = 3
  /\ months = 25

\* C9: summed over the rows, yearlyContributions is totalContributions -
\* principal and yearlyInterest is totalInterest; each yearly figure is the
\* row's cumulative value less the previous row's (principal as the baseline
\* of the first row).
C9_YearlyFiguresReconcile ==
  Done =>
    LET rows == returned.yearlyRows
        contrib(k) == rows[k].yearlyContributions
        interest(k) == rows[k].yearlyInterest
        prevContrib(k) == IF k = 1 THEN input.principal * scale
                          ELSE rows[k - 1].totalContributions
        prevInterest(k) == IF k = 1 THEN 0 ELSE rows[k - 1].totalInterest
    IN /\ SumOver(contrib, 1, Len(rows)) =
            returned.totalContributions - input.principal * scale
       /\ SumOver(interest, 1, Len(rows)) = returned.totalInterest
       /\ \A k \in 1..Len(rows) :
             /\ contrib(k) = rows[k].totalContributions - prevContrib(k)
             /\ interest(k) = rows[k].totalInterest - prevInterest(k)

C9_Witness ==
  /\ Done
  /\ Len(returned.yearlyRows) = 3
  /\ returned.yearlyRows[2].yearlyInterest > returned.yearlyRows[1].yearlyInterest
  /\ returned.yearlyRows[2].yearlyContributions > 0

\* C10: a horizon under one month (0 < years < 1/12) is simulated as one
\* month and returns exactly one row, partial, with yearNumber 1.
C10_SubMonthHorizon ==
  input.yearsN * 12 < YearsDen =>
    /\ months = 1
    /\ Done => /\ Len(returned.yearlyRows) = 1
                /\ returned.yearlyRows[1].isPartial
                /\ returned.yearlyRows[1].yearNumber = 1

C10_Witness ==
  /\ Done
  /\ 2 * input.yearsN * 12 < YearsDen
  /\ Len(returned.yearlyRows) = 1

C10_WitnessRoundedUp ==
  /\ Done
  /\ input.yearsN * 12 < YearsDen
  /\ 2 * input.yearsN * 12 >= YearsDen
  /\ Len(returned.yearlyRows) = 1

\* the arguments of an engine call are in the engine's domain
InDomain(a) ==
  /\ \A f \in DOMAIN ErrorKey : a[f].kind = "finite"
  /\ a.principal.num >= 0
  /\ a.annualRatePercent.num >= 0
  /\ a.years.num > 0
  /\ a.compoundsPerYear.num > 0
  /\ a.contributionAmount.num >= 0

\* C6: over any sequence of field edits, language changes and submits, a
\* submit invokes calculateCompoundInterest if and only if validate() reports
\* no field error for the current form state, no other event invokes it, and
\* the arguments of every invocation are finite with principal >= 0,
\* annualRatePercent >= 0, years > 0, compoundsPerYear > 0 and
\* contributionAmount >= 0.
C6_EngineCalledOnlyWithValidInput ==
  /\ submitted => (call # NoCall <=> DOMAIN validate(formState, language).errors = {})
  /\ ~submitted => call = NoCall
  /\ call # NoCall => InDomain(call)

C6_Witness ==
  /\ submitted
  /\ call # NoCall
  /\ language = "cs"
  /\ formState.years = <<"1", " ", "0">>
  /\ formState.principal = <<" ">>
  /\ call.principal = Zero

C6_WitnessRejected ==
  /\ submitted
  /\ call = NoCall
  /\ result = NoCalculation
  /\ language = "en"
  /\ formState.years = <<"1", " ", "0">>
  /\ DOMAIN errors = {"years"}

\* C11: totalContributions never decreases from row to row, the first row's
\* totalContributions is at least principal, and with contributionAmount = 0
\* it equals principal at every row and in the result.
C11_ContributionsNeverDecrease ==
  /\ \A k \in 1..Len(yearlyRows) :
        /\ k > 1 => yearlyRows[k].totalContributions >= yearlyRows[k - 1].totalContributions
        /\ k = 1 => yearlyRows[k].totalContributions >= input.principal * scale
        /\ input.contributionAmount = 0 =>
             yearlyRows[k].totalContributions = input.principal * scale
  /\ Done => /\ returned.yearlyRows = yearlyRows
             /\ input.contributionAmount = 0 =>
                  returned.totalContributions = input.principal * scale

C11_Witness ==
  /\ Done
  /\ Len(returned.yearlyRows) = 3
  /\ input.principal > 0
  /\ input.contributionFrequency = "annual"
  /\ returned.yearlyRows[2].totalContributions > returned.yearlyRows[1].totalContributions
  /\ returned.yearlyRows[3].totalContributions = returned.yearlyRows[2].totalContributions

C11_WitnessNoContribution ==
  /\ Done
  /\ input.contributionAmount = 0
  /\ input.principal > 0
  /\ Len(returned.yearlyRows) = 2
  /\ returned.finalAmount > returned.totalContributions

\* a text of blanks only, the empty text included
Blank(text) == \A k \in 1..Len(text) : text[k] \in Whitespace

\* a text parseNumber gives no number for
Unparseable(text) == parseNumber(text, language) = Null

\* C13: on a submit, a blank principal or contributionAmount is taken as 0
\* and raises no error for that field, while a blank or unparseable
\* annualRatePercent, years or compoundsPerYear raises an error for that field
\* and the engine is not invoked.
C13_BlankFieldsOnSubmit ==
  submitted =>
    /\ \A f \in {"principal", "contributionAmount"} :
         Blank(formState[f]) =>
           /\ f \notin DOMAIN errors
           /\ validate(formState, language).parsed[f] = Zero
           /\ call # NoCall => call[f] = Zero
    /\ \A f \in {"annualRatePercent", "years", "compoundsPerYear"} :
         (Blank(formState[f]) \/ Unparseable(formState[f])) =>
           /\ f \in DOMAIN errors
           /\ errors[f] = ErrorKey[f]
           /\ call = NoCall
           /\ result = NoCalculation

C13_Witness ==
  /\ submitted
  /\ Blank(formState.principal)
  /\ Blank(formState.annualRatePercent)
  /\ formState.years = InfinityWord
  /\ DOMAIN errors = {"annualRatePercent", "years"}

C13_WitnessBlankAccepted ==
  /\ submitted
  /\ Blank(formState.principal)
  /\ Blank(formState.contributionAmount)
  /\ call # NoCall

\* C14: a stored result never coexists with field errors: a submit that finds
\* an error sets result to null, and field edits and language changes leave
\* result and errors as they are.
C14_ResultExcludesErrors ==
  /\ [](~(result # NoCalculation /\ DOMAIN errors # {}))
  /\ [](submitted /\ DOMAIN errors # {} => result = NoCalculation)
  /\ [][~submitted' => (result' = result /\ errors' = errors)]_vars

C14_Witness ==
  /\ ~submitted
  /\ result # NoCalculation
  /\ errors = NoErrors
  /\ DOMAIN validate(formState, language).errors # {}

C14_WitnessCleared ==
  /\ submitted
  /\ result = NoCalculation
  /\ DOMAIN errors # {}

C12_WitnessStrict ==
  /\ Done
  /\ input.principal > 0
  /\ input.contributionAmount = 0
  /\ FLess(FromInt(0), FloatMonthlyRate(input))
  /\ Len(returned.yearlyRows) = 2
  /\ FLess(returned.totalContributions, returned.finalAmount)

\* C12 in exact arithmetic: the strict inequality holds of every run.
C12_StrictInExactArithmetic ==
  (Done /\ input.annualRatePercent > 0 /\ input.principal > 0) =>
    returned.finalAmount > returned.totalContributions
====
